---- MODULE Spec2Model ----
(***************************************************************************)
(* AzIoTSasToken (esp32/CadIOT-v4/AzIoTSasToken.cpp): the SAS token        *)
(* generator of the device.  One instance holds a view (sasToken) into a   *)
(* caller-owned token buffer and a 32-bit expiration epoch; Generate runs  *)
(* canonicalization, key decode, HMAC, signature encode and formatting.    *)
(*                                                                         *)
(* Numbers that do not fit TLC's integers (epoch seconds, 2^32, 2^64) are  *)
(* kept exactly as two limbs <<hi, lo>> with value hi * 2^16 + lo and      *)
(* 0 <= lo < 2^16, so that the 32-bit wrap of the source is the real one.  *)
(***************************************************************************)
EXTENDS Integers, Sequences, FiniteSets, TLC

VARIABLES
    clock,              \* time(NULL), epoch seconds, as limbs
    ticks,              \* how many times the clock advanced
    sigCap,             \* az_span_size(signatureBuffer)
    tokCap,             \* az_span_size(sasTokenBuffer)
    sasToken,           \* the member sasToken: the view Get() returns
    expirationUnixTime, \* the member expirationUnixTime (uint32_t), as limbs
    tokenBuf,           \* the bytes of sasTokenBuffer, as what was written there
    precondCheck,       \* the build checks the preconditions of az_span_slice
    sigOverrun,         \* bytes were written past the end of signatureBuffer
    halted,             \* a precondition of az_span_slice stopped the program
    lastOp,             \* the operation that ran last
    lastRet,            \* what it returned
    stagesRun,          \* the stages the last Generate ran, in order
    stagesFailed,       \* the stages of the last Generate that failed
    call,               \* the inputs of the last Generate
    changed,            \* what the last operation changed: token view, visible bytes, expiration
    good,               \* the latest successful Generate call, <<>> before it
    genSinceGood,       \* a Generate call was made after the latest successful one
    renewal             \* the latest successful Generate call against the one before it

vars == <<clock, ticks, sigCap, tokCap, sasToken, expirationUnixTime, tokenBuf,
          precondCheck, sigOverrun, halted, lastOp, lastRet, stagesRun,
          stagesFailed, call, changed, good, genSinceGood, renewal>>

----------------------------------------------------------------------------
(* Bounds and input sets *)

MaxTicks == 2

Limb == 2^16

\* 1700003600
StartClock == <<25939, 65296>>

TickSeconds == {60}

\* expiryTimeInMinutes: 1, 3, 43250000 and 2^30
Lifetimes == { <<0, 1>>, <<0, 3>>, <<659, 61776>>, <<16384, 0>> }

\* the bytes deviceKey points to when Generate reads them: valid base64 or
\* not, and the length they decode to
Keys == { [valid |-> TRUE, len |-> 16], [valid |-> FALSE, len |-> 0] }

SigCaps == {8, 24, 64}

TokCaps == {128}

\* length of the password the formatter produces for the hub client
PwdLens == {100, 140}

----------------------------------------------------------------------------
(* Exact arithmetic on limbs *)

Norm(hi, lo) == << hi + (lo \div Limb), lo % Limb >>

Add(a, b) == Norm(a[1] + b[1], a[2] + b[2])

Mul(a, k) == Norm(a[1] * k, a[2] * k)

Geq(a, b) == a[1] > b[1] \/ (a[1] = b[1] /\ a[2] >= b[2])

Zero == <<0, 0>>

\* a conversion to uint32_t, or the result of an unsigned int operation
U32(a) == << a[1] % Limb, a[2] >>

\* a conversion to uint16_t
U16(a) == << 0, a[2] >>

----------------------------------------------------------------------------
(* Constants of the source *)

SecondsPerMinute == 60

HmacLen == 32

B64SigBufSize == 256

StageOrder == <<"canonicalize", "decode", "hmac", "encode", "format">>

----------------------------------------------------------------------------
(* Spans *)

AZ_SPAN_EMPTY == [buf |-> "null", off |-> 0, len |-> 0]

sasTokenBuffer == [buf |-> "sasTokenBuffer", off |-> 0, len |-> tokCap]

az_span_slice(span, start, end) ==
    [buf |-> span.buf, off |-> span.off + start, len |-> end - start]

az_result_failed(res) == res # "AZ_OK"

----------------------------------------------------------------------------
(* The helpers of Generate *)

get_unix_time_now == U32(clock)

\* expiryTimeInMinutes * 60 is an unsigned int product
LifetimeSeconds(expiryTimeInMinutes) == U32(Mul(expiryTimeInMinutes, SecondsPerMinute))

\* uint64_t expiration = (uint64_t)now + (uint64_t)(expiryTimeInMinutes * 60)
Expiration(t, expiryTimeInMinutes) == Add(t, LifetimeSeconds(expiryTimeInMinutes))

\* variant: the epoch is kept in 16 bits
TruncatedExpiration16(expiration) == U16(expiration)

\* expirationUnixTime = (uint32_t)expiration
TruncatedExpiration(expiration) == U32(expiration)

\* variant: the decoder does not reject text that is not base64
UncheckedDecode(key, dlen) == IF key.len <= dlen THEN 0 ELSE 1

\* mbedtls_base64_decode of the key into signatureBuffer: rc, nonzero when
\* the text is not base64 or the decoded key does not fit
base64_decode_rc(key, dlen) == IF key.valid /\ key.len <= dlen THEN 0 ELSE 1

Base64Len(n) == 4 * ((n + 2) \div 3)

\* base64_encode: mbedtls_base64_encode needs room for the text and a NUL
base64_encode(slen, dlen) ==
    IF dlen < Base64Len(slen) + 1
    THEN [res |-> "AZ_ERROR_NOT_ENOUGH_SPACE", len |-> 0]
    ELSE [res |-> "AZ_OK", len |-> Base64Len(slen)]

\* az_iot_hub_client_sas_get_password into sasTokenBuffer: need is the length
\* of the password, which must fit with its NUL
sas_get_password(need, size) ==
    IF need + 1 <= size
    THEN [res |-> "AZ_OK", len |-> need]
    ELSE [res |-> "AZ_ERROR", len |-> 0]

\* Where a Generate call ends: the stage whose failure returns 1, "slice"
\* when az_span_slice(signatureBuffer, 0, 32) stops the program, "return"
\* at return 0.  A slice past the end of the span stops a build that checks
\* preconditions; any other build goes on and writes the HMAC past the end.
StopAt(key, canonOk, need) ==
    IF ~canonOk THEN "canonicalize"
    ELSE IF base64_decode_rc(key, sigCap) # 0 THEN "decode"
    ELSE IF HmacLen > sigCap /\ precondCheck THEN "slice"
    ELSE IF az_result_failed(base64_encode(HmacLen, B64SigBufSize).res) THEN "encode"
    ELSE IF az_result_failed(sas_get_password(need, tokCap).res) THEN "format"
    ELSE "return"

StagesUpTo(stop) ==
    CASE stop = "canonicalize" -> SubSeq(StageOrder, 1, 1)
      [] stop \in {"decode", "slice"} -> SubSeq(StageOrder, 1, 2)
      [] stop = "encode" -> SubSeq(StageOrder, 1, 4)
      [] OTHER -> StageOrder

\* the int Generate returns, as text; "halt" when it never returns
Ret(stop) == IF stop = "return" THEN "0" ELSE IF stop = "slice" THEN "halt" ELSE "1"

Ran(stop, stage) == \E i \in 1..Len(StagesUpTo(stop)) : StagesUpTo(stop)[i] = stage

\* the stages of the call that failed (hmac_sha256_sign returns nothing)
Failed(stop, hmacOk) ==
    (IF stop \in {"canonicalize", "decode", "encode", "format"} THEN {stop} ELSE {})
    \cup (IF Ran(stop, "hmac") /\ ~hmacOk THEN {"hmac"} ELSE {})

\* variant: sasToken is assigned before the formatter's result is checked
StoreAlways(stop, pwd_len) == az_span_slice(sasTokenBuffer, 0, pwd_len)

\* sasToken after the call
StoreToken(stop, pwd_len) ==
    IF stop = "return" THEN az_span_slice(sasTokenBuffer, 0, pwd_len) ELSE sasToken

\* the bytes of sasTokenBuffer after the call; the formatter may have
\* written part of the password before it failed
TokenBytes(stop, expiration, partial) ==
    IF stop = "return" THEN [is |-> "password", exp |-> expiration]
    ELSE IF stop = "format" /\ partial THEN [is |-> "partial", exp |-> Zero]
    ELSE tokenBuf

NoKey == [valid |-> FALSE, len |-> -1]

NoCall == [minutes |-> Zero, key |-> NoKey, need |-> 0]

\* the inputs of a Generate call: its argument, the key bytes at the time,
\* and the length the formatter needed (0 when the formatter did not run)
Inputs(stop, expiryTimeInMinutes, key, need) ==
    [minutes |-> expiryTimeInMinutes,
     key |-> key,
     need |-> IF Ran(stop, "format") THEN need ELSE 0]

NoRenewal == [is |-> "none", sameMinutes |-> FALSE, embedded |-> FALSE,
              tracked |-> FALSE, past32 |-> FALSE, exact |-> FALSE]

\* now + minutes * 60 in the integers
ExactExpiration(t, minutes) == Add(t, Mul(minutes, SecondsPerMinute))

\* what a step changes: the token view, the bytes seen through the view as
\* it was before the step, the expiration epoch
Changes ==
    [view |-> sasToken' # sasToken,
     bytes |-> sasToken.len > 0 /\ tokenBuf' # tokenBuf,
     exp |-> expirationUnixTime' # expirationUnixTime]

IsExpiredResult == Geq(get_unix_time_now, expirationUnixTime)

----------------------------------------------------------------------------
(* Operations *)

Init ==
    /\ clock = StartClock
    /\ ticks = 0
    /\ sigCap \in SigCaps
    /\ tokCap \in TokCaps
    \* the two builds differ only where a span is sliced past its end
    /\ precondCheck \in {b \in BOOLEAN : b \/ sigCap < HmacLen}
    /\ sasToken = AZ_SPAN_EMPTY
    /\ expirationUnixTime = Zero
    /\ tokenBuf = [is |-> "blank", exp |-> Zero]
    /\ sigOverrun = FALSE
    /\ halted = FALSE
    /\ lastOp = "constructor"
    /\ lastRet = "none"
    /\ stagesRun = <<>>
    /\ stagesFailed = {}
    /\ call = NoCall
    /\ changed = [view |-> FALSE, bytes |-> FALSE, exp |-> FALSE]
    /\ good = <<>>
    /\ genSinceGood = FALSE
    /\ renewal = NoRenewal

Generate(expiryTimeInMinutes, key, canonOk, hmacOk, need, partial) ==
    /\ ~halted
    /\ \E t \in {get_unix_time_now}, stop \in {StopAt(key, canonOk, need)},
          pwd \in {sas_get_password(need, tokCap)} :
       \E expiration \in {Expiration(t, expiryTimeInMinutes)} :
           /\ expirationUnixTime' = TruncatedExpiration(expiration)
           /\ sasToken' = StoreToken(stop, pwd.len)
           /\ tokenBuf' = TokenBytes(stop, expiration, partial)
           /\ sigOverrun' = (sigOverrun \/ (Ran(stop, "hmac") /\ hmacOk /\ HmacLen > sigCap))
           /\ halted' = (stop = "slice")
           /\ lastRet' = Ret(stop)
           /\ stagesRun' = StagesUpTo(stop)
           /\ stagesFailed' = Failed(stop, hmacOk)
           /\ call' = Inputs(stop, expiryTimeInMinutes, key, need)
           /\ good' = IF stop = "return"
                      THEN <<[now |-> t, minutes |-> expiryTimeInMinutes,
                              expiration |-> expiration,
                              tracked |-> expirationUnixTime',
                              exact |-> expirationUnixTime' =
                                          ExactExpiration(t, expiryTimeInMinutes)]>>
                      ELSE good
           /\ genSinceGood' = (stop # "return")
           /\ renewal' =
                IF stop = "return" /\ good # <<>>
                THEN [is |-> "renewed",
                      sameMinutes |-> expiryTimeInMinutes = good[1].minutes,
                      embedded |-> Geq(expiration, good[1].expiration),
                      tracked |-> Geq(expirationUnixTime', good[1].tracked),
                      past32 |-> expiration # U32(expiration),
                      exact |-> /\ good[1].exact
                                /\ expirationUnixTime' =
                                      ExactExpiration(t, expiryTimeInMinutes)]
                ELSE renewal
    /\ lastOp' = "Generate"
    /\ changed' = Changes
    /\ UNCHANGED <<clock, ticks, sigCap, tokCap, precondCheck>>

IsExpired ==
    /\ ~halted
    /\ UNCHANGED <<clock, ticks, sigCap, tokCap, precondCheck, sasToken,
                   expirationUnixTime, tokenBuf, sigOverrun, halted, good,
                   genSinceGood, renewal>>
    /\ lastOp' = "IsExpired"
    /\ lastRet' = IF IsExpiredResult THEN "true" ELSE "false"
    /\ stagesRun' = <<>>
    /\ stagesFailed' = {}
    /\ call' = NoCall
    /\ changed' = Changes

Get ==
    /\ ~halted
    /\ UNCHANGED <<clock, ticks, sigCap, tokCap, precondCheck, sasToken,
                   expirationUnixTime, tokenBuf, sigOverrun, halted, good,
                   genSinceGood, renewal>>
    /\ lastOp' = "Get"
    /\ lastRet' = IF sasToken = AZ_SPAN_EMPTY THEN "empty" ELSE "token"
    /\ stagesRun' = <<>>
    /\ stagesFailed' = {}
    /\ call' = NoCall
    /\ changed' = Changes

\* the clock advances by d seconds
Tick(d) ==
    /\ ~halted
    /\ ticks < MaxTicks
    /\ U32(Add(clock, <<0, d>>)) = Add(clock, <<0, d>>)
    /\ clock' = Add(clock, <<0, d>>)
    /\ ticks' = ticks + 1
    /\ UNCHANGED <<sigCap, tokCap, precondCheck, sasToken, expirationUnixTime,
                   tokenBuf, sigOverrun, halted, good, genSinceGood, renewal>>
    /\ lastOp' = "Tick"
    /\ lastRet' = "none"
    /\ stagesRun' = <<>>
    /\ stagesFailed' = {}
    /\ call' = NoCall
    /\ changed' = Changes

\* Inputs a call cannot read are held fixed, so that each distinct call is
\* taken once: the HMAC and formatter outcomes when the call ends before the
\* HMAC, a partial write when the password fits.
EachOnce(key, canonOk, hmacOk, need, partial) ==
    /\ (~canonOk \/ ~key.valid) => (hmacOk /\ ~partial /\ \A n \in PwdLens : need <= n)
    /\ partial => az_result_failed(sas_get_password(need, tokCap).res)

Next ==
    \/ \E m \in Lifetimes, key \in Keys, canonOk \in BOOLEAN, hmacOk \in BOOLEAN,
          need \in PwdLens, partial \in BOOLEAN :
            /\ EachOnce(key, canonOk, hmacOk, need, partial)
            /\ Generate(m, key, canonOk, hmacOk, need, partial)
    \/ IsExpired
    \/ Get
    \/ \E d \in TickSeconds : Tick(d)

Spec == Init /\ [][Next]_vars

----------------------------------------------------------------------------
(* Claims *)

\* the signature buffer cannot hold the decoded key or the 32-byte HMAC, or
\* the token buffer cannot hold the password, in the last Generate call
TooSmall ==
    \/ HmacLen > sigCap
    \/ (call.key.valid /\ call.key.len > sigCap)
    \/ (call.need > 0 /\ call.need + 1 > tokCap)

\* The last Generate call met neither the short signature buffer of C5 nor
\* the failed HMAC of C9.  C1, C2, C3, C6 and C8 are stated for such calls,
\* so that what refutes them is their own subject and not those two faults.
Sound == sigCap >= HmacLen /\ "hmac" \notin stagesFailed

\* C1: once a Generate has succeeded, a Generate that fails (at any stage)
\* leaves the token Get() returns (view and bytes) and the expiration epoch
\* as they were.
C1_FailedGenerateKeepsState ==
    (lastOp = "Generate" /\ lastRet = "1" /\ good # <<>> /\ Sound)
        => (~changed.view /\ ~changed.bytes /\ ~changed.exp)

\* C2: right after a successful Generate, with the clock unchanged,
\* IsExpired() is false and the token is not empty.
C2_FreshAfterGenerate ==
    (lastOp = "Generate" /\ lastRet = "0" /\ Sound)
        => (~IsExpiredResult /\ sasToken.len > 0)

\* C3: after a successful Generate(L) at now0 and no Generate call since,
\* IsExpired() is true exactly when the clock is at or past now0 + L*60.
C3_ExpiredFromBoundary ==
    (good # <<>> /\ ~genSinceGood /\ Sound)
        => (IsExpiredResult <=>
              Geq(clock, ExactExpiration(good[1].now, good[1].minutes)))

\* C4: while no Generate has succeeded, IsExpired() is true and Get()
\* returns the empty token.
C4_NeverGenerated ==
    (good = <<>> /\ ~halted) => (IsExpiredResult /\ sasToken = AZ_SPAN_EMPTY)

\* C5: with a scratch buffer too small, Generate returns failure, writes
\* nothing outside the buffers and leaves the bytes seen through Get()
\* (stated for calls in which the HMAC itself did not fail).
C5_SmallBuffersFailCleanly ==
    (lastOp = "Generate" /\ TooSmall /\ "hmac" \notin stagesFailed)
        => (lastRet = "1" /\ ~sigOverrun /\ ~changed.bytes)

\* C6 as stated: the expiration epoch held after a successful Generate is
\* at least the one held after the successful Generate before it (here for
\* two calls whose expiration is exactly now + minutes*60).
C6_ExpirationNeverDecreases ==
    (renewal.is = "renewed" /\ renewal.exact /\ Sound)
        => renewal.tracked

\* C6 as amended: between two successive successful Generate calls with the
\* same lifetime, the 64-bit expiration Generate computes does not decrease,
\* the held epoch is its low 32 bits, and the held epoch does not decrease
\* unless the 64-bit expiration is 2^32 or more.
C6_SameLifetimeRenewal ==
    /\ good # <<>> => good[1].tracked = U32(good[1].expiration)
    /\ (renewal.is = "renewed" /\ renewal.sameMinutes)
          => (renewal.embedded /\ (renewal.tracked \/ renewal.past32))

C6_Witness ==
    /\ renewal.is = "renewed" /\ renewal.sameMinutes
    /\ renewal.tracked /\ ~renewal.past32
    /\ good[1].now # StartClock
    /\ good[1].minutes = <<0, 3>>
    /\ Sound

\* C7 as stated: with a key that is not valid base64, Generate fails at the
\* key-decode step, runs no later stage and leaves the token of Get().
C7_BadKeyFailsAtDecode ==
    (lastOp = "Generate" /\ ~call.key.valid)
        => /\ lastRet = "1"
           /\ stagesRun = SubSeq(StageOrder, 1, 2)
           /\ stagesFailed = {"decode"}
           /\ ~changed.view /\ ~changed.bytes

\* C7 as amended: with a key that is not valid base64, Generate returns
\* failure, at the key-decode step when canonicalization succeeded and at
\* canonicalization otherwise; it never runs the HMAC, signature-encode or
\* format stages and leaves the token of Get() (view and bytes).
C7_BadKeyStopsByDecode ==
    (lastOp = "Generate" /\ ~call.key.valid)
        => /\ lastRet = "1"
           /\ \/ stagesRun = SubSeq(StageOrder, 1, 2) /\ stagesFailed = {"decode"}
              \/ stagesRun = SubSeq(StageOrder, 1, 1) /\ stagesFailed = {"canonicalize"}
           /\ ~changed.view /\ ~changed.bytes

C7_Witness ==
    /\ lastOp = "Generate" /\ ~call.key.valid
    /\ stagesFailed = {"decode"}
    /\ sasToken.len > 0 /\ tokenBuf.is = "password"
    /\ sigCap >= HmacLen

\* C8: after a successful Generate the held expiration epoch is
\* now + lifetimeMinutes*60, not wrapped or truncated, and it is the
\* expiration embedded in the token.
C8_ExpirationExact ==
    (lastOp = "Generate" /\ lastRet = "0" /\ Sound)
        => /\ expirationUnixTime = ExactExpiration(clock, call.minutes)
           /\ expirationUnixTime = tokenBuf.exp

\* C9: the stages run in order; a stage that fails is the last one run and
\* Generate returns failure; success means all five ran and none failed
\* (stated for a signature buffer that holds the HMAC).
C9_StagesStopAtFailure ==
    (lastOp = "Generate" /\ sigCap >= HmacLen)
        => /\ stagesRun = SubSeq(StageOrder, 1, Len(stagesRun))
           /\ \A i \in 1..Len(stagesRun) :
                 stagesRun[i] \in stagesFailed
                    => (i = Len(stagesRun) /\ lastRet = "1")
           /\ lastRet = "0" => (stagesRun = StageOrder /\ stagesFailed = {})

\* C10: the view of Get() is empty or a prefix of the token buffer within
\* its capacity; only a successful Generate changes it, and IsExpired() and
\* Get() change neither the view nor the expiration epoch.
C10_TokenView ==
    /\ \/ sasToken = AZ_SPAN_EMPTY
       \/ /\ sasToken.buf = sasTokenBuffer.buf
          /\ sasToken.off = 0
          /\ sasToken.len \in 0..tokCap
    /\ changed.view => (lastOp = "Generate" /\ lastRet = "0"
                        /\ sasToken.buf = sasTokenBuffer.buf)
    /\ lastOp \in {"IsExpired", "Get"} => (~changed.view /\ ~changed.exp)

C10_Witness ==
    /\ lastOp = "Generate" /\ lastRet = "0"
    /\ changed.view
    /\ sasToken = [buf |-> "sasTokenBuffer", off |-> 0, len |-> 100]
    /\ Sound

====
